---------------------------- MODULE Spec2Model ----------------------------
(***************************************************************************)
(* A model of torch/csrc/distributed/c10d/intra_node_comm.cu: the          *)
(* cross-device signal primitives, the three all-reduce kernels with their *)
(* host launchers, the hybrid-cube-mesh topology resolver and the          *)
(* algorithm selector.                                                     *)
(*                                                                         *)
(* The module holds several specifications over one set of variables; each *)
(* specification drives one group of variables and leaves the others at    *)
(* their idle values:                                                      *)
(*   SpecSem     releaseSignal / acquireSignal on one counter, at the      *)
(*               granularity of the single loads and atomics of the code.  *)
(*   Spec        the three kernels and their launchers on a group of ranks *)
(*               (FairSpec: the fully connected ones, scheduled fairly).   *)
(*   SpecTopo    getHybridCubeMesh, one loop iteration per step, and the   *)
(*               store of its result by initHcmP2pState.                   *)
(*   SpecSelect  selectAllReduceAlgo over a set of inputs.                 *)
(***************************************************************************)
EXTENDS Integers, Sequences, FiniteSets, TLC

VARIABLES
    \* ---- one signal counter and the threads operating on it (SpecSem)
    semCounter,   \* the uint32_t at *addr
    acqPc,        \* acquiring thread -> "idle" | "read" | "cas" | "done"
    acqVal,       \* acquiring thread -> its local `val`
    nReleases,    \* history: number of completed releaseSignal calls
    nAcquires     \* history: number of acquireSignal calls that returned

semVars == <<semCounter, acqPc, acqVal, nReleases, nAcquires>>

VARIABLES
    \* ---- one group of ranks running all-reduce calls (Spec)
    algo,         \* AllReduceAlgo every rank passes to allReduce
    worldSize,    \* number of ranks
    numel,        \* input.numel(), the same on every rank
    probe,        \* the element index whose values the model follows
    gridDim,      \* blocks.x of getLaunchConfig, the same on every rank
    blockDim,     \* threads.x of getLaunchConfig
    visitMemo,    \* which blocks' loops reach the probed element (see Visits)
    launched,     \* the ranks that do launch their kernels
    hcm,          \* rank -> <<neighborRanks[0..2], relayRank>> of its HcmP2pState
    calls,        \* rank -> number of allReduce calls issued so far
    hostPc,       \* rank -> "idle" | "kernel" | "copyback": position of its stream
    blockPc,      \* rank -> block -> position of that block of the running kernel
    signals,      \* rank -> block -> peer -> p2pStates[rank]->signals[block][peer]
    signals1,     \* rank -> block -> peer -> p2pStates[rank]->signals1[block][peer]
    buffers,      \* rank -> element index -> value held in buffers[rank]
    tensor,       \* rank -> value of element `probe` of the caller's tensor
    scratchOut    \* rank -> value of element `probe` of twoShot's padded `output`

\* what a call is given, fixed over a run
krnArgs == <<algo, worldSize, numel, probe, gridDim, blockDim, visitMemo,
             launched, hcm>>
krnVars == <<krnArgs, calls, hostPc, blockPc, signals, signals1, buffers,
             tensor, scratchOut>>

VARIABLES
    \* ---- one resolution of the topology (SpecTopo)
    nvlMesh,      \* device -> the devices j with nvlMesh[device][j] > 0
    iterOrder,    \* iteration order of std::unordered_set in this build
    topo,         \* the locals of getHybridCubeMesh
    hcmState      \* rank -> the HcmP2pState initHcmP2pState has filled, or <<>>

topoVars == <<nvlMesh, iterOrder, topo, hcmState>>

VARIABLES
    \* ---- one call of selectAllReduceAlgo (SpecSelect)
    selInput,     \* [dtype, numel, topology, worldSize]
    selResult     \* "pending", an AllReduceAlgo, or "TORCH_CHECK"

selVars == <<selInput, selResult>>

VARIABLES
    \* ---- one call of a host helper (SpecAlign, SpecLaunch)
    fnArgs,       \* the arguments of alignUp or of getLaunchConfig
    fnResult      \* <<>>, or what the helper returned

fnVars == <<fnArgs, fnResult>>

VARIABLES
    \* ---- one call of allReduce on one rank, host side (SpecCall)
    callArgs,     \* [algo, dtype, dense, device, numel, worldSize]
    callPc,       \* position of the host thread inside allReduce
    aligned,      \* N_aligned (N in hybridCubeMeshAllReduce), or <<>>
    staged,       \* bytes cudaMemcpyAsync copies into buffers[rank], or <<>>
    kernel        \* the kernel put on the stream, or "none"

callVars == <<callArgs, callPc, aligned, staged, kernel>>

vars == <<semVars, krnVars, topoVars, selVars, fnVars, callVars>>
\* the groups each specification leaves alone
notSem == <<krnVars, topoVars, selVars, fnVars, callVars>>
notKrn == <<semVars, topoVars, selVars, fnVars, callVars>>
notTopo == <<semVars, krnVars, selVars, fnVars, callVars>>
notSel == <<semVars, krnVars, topoVars, fnVars, callVars>>
notFn == <<semVars, krnVars, topoVars, selVars, callVars>>
notCall == <<semVars, krnVars, topoVars, selVars, fnVars>>

(***************************************************************************)
(* Program constants.                                                      *)
(***************************************************************************)
kBytesPerThread == 16
kMaxAllReduceBlocks == 24
kThreadsPerBlock == 1024
kWarpSize == 32
kSizeofBFloat16 == 2
kNumelPerThread == kBytesPerThread \div kSizeofBFloat16
kNumelPerWarp == kNumelPerThread * kWarpSize

kMaxDevices == 8
kMaxIntraNodeSize == 10 * 1024 * 1024

(***************************************************************************)
(* Unsigned arithmetic.  A uint32_t or size_t value is the pair <<hi, lo>> *)
(* of its digits in base 2^16 (hi is unbounded for a size_t), so that the  *)
(* wrap of 32-bit arithmetic is computed and not assumed away.  The second *)
(* operand of divUp and alignUp is below 2^16 at every call site and is a  *)
(* plain integer.                                                          *)
(***************************************************************************)
Limb == 2^16
Wide(n) == <<n \div Limb, n % Limb>>
Narrow(x) == x[1] * Limb + x[2]
\* conversion of a size_t / int64_t argument to a uint32_t parameter
ToU32(x) == <<x[1] % Limb, x[2]>>
WideLeq(x, y) == x[1] < y[1] \/ (x[1] = y[1] /\ x[2] <= y[2])
WideMul(x, b) ==
    LET lo == x[2] * b
    IN  <<x[1] * b + lo \div Limb, lo % Limb>>

\* static inline size_t divUp(uint32_t a, uint32_t b) { return (a + b - 1) / b; }
divUp(a, b) ==
    LET a32 == ToU32(a)
        lo  == a32[2] + b - 1
        sHi == (a32[1] + lo \div Limb) % Limb      \* a + b - 1 wraps at 2^32
        sLo == lo % Limb
        r   == sHi % b
    IN  <<sHi \div b, (r * Limb + sLo) \div b>>

\* static inline size_t alignUp(uint32_t a, uint32_t b) { return divUp(a, b) * b; }
alignUp(a, b) == WideMul(divUp(a, b), b)

\* input.numel() * input.element_size() after the alignment, a size_t;
\* kNumelPerWarp * factor is converted to alignUp's uint32_t parameter
getAlignedSize(numelW, elementSize, factor) ==
    WideMul(alignUp(numelW, kNumelPerWarp * factor), elementSize)

Min(x, y) == IF x <= y THEN x ELSE y

\* blocks.x not capped at kMaxAllReduceBlocks
getLaunchConfigNoCap(N) ==
    IF ~WideLeq(Wide(kNumelPerThread * kThreadsPerBlock), N)
      THEN [threads |-> Narrow(divUp(N, kNumelPerWarp)) * kWarpSize, blocks |-> 1]
      ELSE LET warpsRequired   == divUp(N, kNumelPerWarp)
               threadsRequired == divUp(N, kNumelPerThread)
               blocks == Narrow(divUp(threadsRequired, kThreadsPerBlock))
               warpsPerBlock == Narrow(divUp(warpsRequired, blocks))
           IN  [threads |-> Min(kThreadsPerBlock, warpsPerBlock * kWarpSize),
                blocks  |-> blocks]

\* getLaunchConfig(N, blocks, threads)
getLaunchConfig(N) ==
    IF ~WideLeq(Wide(kNumelPerThread * kThreadsPerBlock), N)
      THEN [threads |-> Narrow(divUp(N, kNumelPerWarp)) * kWarpSize, blocks |-> 1]
      ELSE LET warpsRequired   == divUp(N, kNumelPerWarp)
               threadsRequired == divUp(N, kNumelPerThread)
               blocks == Min(Narrow(divUp(threadsRequired, kThreadsPerBlock)),
                             kMaxAllReduceBlocks)
               warpsPerBlock == Narrow(divUp(warpsRequired, blocks))
           IN  [threads |-> Min(kThreadsPerBlock, warpsPerBlock * kWarpSize),
                blocks  |-> blocks]

(***************************************************************************)
(* Topology resolver: getHybridCubeMesh (lines 286-326).                   *)
(*                                                                         *)
(* nvlMesh is kept as the relation "nvlMesh[i][j] > 0" (the weights are    *)
(* read nowhere else): mesh[i] is the set of such j.  The resolver's       *)
(* locals are the record                                                   *)
(*   [neighbors, neighborMasks, hcm, pc, i, k]                             *)
(* with pc in "relay" (the loop of lines 301-309), "fill" (the loop of     *)
(* lines 311-324), "done" (returned) and "failed" (a TORCH_CHECK threw).   *)
(* The iteration order of std::unordered_set is unspecified: `order` names *)
(* the order of the build, ascending or descending rank.                   *)
(***************************************************************************)
Devices == 0..(kMaxDevices - 1)
Unfilled == -1

SetMin(S) == CHOOSE x \in S : \A y \in S : x <= y
SetMax(S) == CHOOSE x \in S : \A y \in S : x >= y
\* the element a range-for over the set S yields first
IterFirst(S, order) == IF order = "ascending" THEN SetMin(S) ELSE SetMax(S)

\* lines 287-300: neighbors, neighborMasks and hcm filled with -1
TopoBegin(mesh) ==
    [neighbors     |-> [i \in Devices |-> mesh[i]],
     neighborMasks |-> [i \in Devices |-> mesh[i]],
     hcm           |-> [i \in Devices |-> [k \in 0..3 |-> Unfilled]],
     pc |-> "relay", i |-> 0, k |-> 0]

\* lines 302-308 for i = t.i: every j whose mask is disjoint from i's is
\* erased from neighbors[i] and stored to hcm[i][3], the last one staying
TopoRelay(t) ==
    LET i == t.i
        disjoint == {j \in Devices : t.neighborMasks[i] \cap t.neighborMasks[j] = {}}
    IN  IF Cardinality(t.neighbors[i]) # 4
          THEN [t EXCEPT !.pc = "failed"]
          ELSE [t EXCEPT
                  !.neighbors[i] = @ \ disjoint,
                  !.hcm[i][3] = IF disjoint = {} THEN @ ELSE SetMax(disjoint),
                  !.i = IF i + 1 = kMaxDevices THEN 0 ELSE i + 1,
                  !.pc = IF i + 1 = kMaxDevices THEN "fill" ELSE "relay"]

\* lines 312-323 for i = t.i and k = t.k
TopoFill(t, order) ==
    LET i == t.i
        k == t.k
        free == {n \in t.neighbors[i] : t.hcm[n][k] = Unfilled}
        j == IterFirst(free, order)
        hcm1 == IF free = {} THEN t.hcm
                ELSE [[t.hcm EXCEPT ![i][k] = j] EXCEPT ![j][k] = i]
        last == (i + 1 = kMaxDevices) /\ (k = 2)
    IN  IF hcm1[i][k] = Unfilled
          THEN [t EXCEPT !.hcm = hcm1, !.pc = "failed"]
          ELSE [t EXCEPT
                  !.hcm = hcm1,
                  !.neighbors[i] = @ \ {hcm1[i][k]},
                  !.k = IF k = 2 THEN 0 ELSE k + 1,
                  !.i = IF k = 2 /\ ~last THEN i + 1 ELSE i,
                  !.pc = IF last THEN "done" ELSE "fill"]

RECURSIVE TopoRun(_, _)
TopoRun(t, order) ==
    IF t.pc = "relay" THEN TopoRun(TopoRelay(t), order)
    ELSE IF t.pc = "fill" THEN TopoRun(TopoFill(t, order), order)
    ELSE t

\* the call as a whole: its locals at the return or at the failed check
getHybridCubeMesh(mesh, order) == TopoRun(TopoBegin(mesh), order)

\* two fully connected quads {0..3} and {4..7}, rank i linked to rank i + 4
\* (mod 8) across: the mesh of NOTE [hybrid cube mesh]
ReferenceMesh ==
    [i \in Devices |->
        {j \in Devices : j # i /\ (j \div 4 = i \div 4 \/ j % 4 = i % 4)}]

\* conversion of an int to size_t, as four digits in base 2^16
IntToSizeT(x) ==
    IF x < 0 THEN <<Limb - 1, Limb - 1, Limb - 1, Limb + x>> ELSE <<0, 0, 0, x>>

\* the meshes of the NOTE under every labelling: a quad Q holding device 0,
\* fully connected, its complement fully connected, and a one-to-one link f
\* between the two
Quads == {Q \in SUBSET Devices : 0 \in Q /\ Cardinality(Q) = 4}
Matchings(Q) ==
    {f \in [Q -> Devices \ Q] : \A a \in Q : \A b \in Q : a # b => f[a] # f[b]}
QuadMesh(Q, f) ==
    [i \in Devices |->
        IF i \in Q THEN (Q \ {i}) \cup {f[i]}
                   ELSE ((Devices \ Q) \ {i}) \cup {a \in Q : f[a] = i}]
HybridCubeMeshes == UNION {{QuadMesh(Q, f) : f \in Matchings(Q)} : Q \in Quads}

\* mesh with the links a-b and c-d rewired to a-c and b-d
Rewired(mesh, a, b, c, d) ==
    [i \in Devices |->
        IF i = a THEN (mesh[a] \ {b}) \cup {c}
        ELSE IF i = b THEN (mesh[b] \ {a}) \cup {d}
        ELSE IF i = c THEN (mesh[c] \ {d}) \cup {a}
        ELSE IF i = d THEN (mesh[d] \ {c}) \cup {b}
        ELSE mesh[i]]
Rewirings(mesh) ==
    {Rewired(mesh, t[1], t[2], t[3], t[4]) :
        t \in {u \in Devices \X Devices \X Devices \X Devices :
                 /\ Cardinality({u[1], u[2], u[3], u[4]}) = 4
                 /\ u[2] \in mesh[u[1]] /\ u[4] \in mesh[u[3]]
                 /\ u[3] \notin mesh[u[1]] /\ u[4] \notin mesh[u[2]]}}

\* mesh without the link a-b
Unlinked(mesh, a, b) ==
    [i \in Devices |-> IF i = a THEN mesh[a] \ {b}
                       ELSE IF i = b THEN mesh[b] \ {a} ELSE mesh[i]]

\* the adjacencies given to the resolver: every hybrid cube mesh, every
\* rewiring of the reference one (all ranks keep four links), one with a link
\* down and one without links
NvlMeshes ==
    HybridCubeMeshes \cup Rewirings(ReferenceMesh)
        \cup {Unlinked(ReferenceMesh, 0, 1), [i \in Devices |-> {}]}

TopoIdle ==
    /\ nvlMesh = <<>>
    /\ iterOrder = "none"
    /\ topo = <<>>
    /\ hcmState = <<>>

TopoInputs ==
    /\ nvlMesh \in NvlMeshes
    /\ iterOrder \in {"ascending", "descending"}
    /\ topo = TopoBegin(nvlMesh)
    /\ hcmState = <<>>

\* one iteration of the loop of lines 301-309
TopoRelayStep ==
    /\ topo.pc = "relay"
    /\ topo' = TopoRelay(topo)
    /\ UNCHANGED <<nvlMesh, iterOrder, hcmState, notTopo>>

\* one iteration, over k, of the loops of lines 311-324
TopoFillStep ==
    /\ topo.pc = "fill"
    /\ topo' = TopoFill(topo, iterOrder)
    /\ UNCHANGED <<nvlMesh, iterOrder, hcmState, notTopo>>

\* initHcmP2pState on every rank, after its getHybridCubeMesh has returned
\* (each rank resolves the same nvlMesh on its own, to the same result)
initHcmP2pState ==
    /\ topo.pc = "done"
    /\ hcmState = <<>>
    /\ hcmState' = [r \in Devices |->
                      [neighborRanks |-> [k \in 0..2 |-> IntToSizeT(topo.hcm[r][k])],
                       relayRank |-> IntToSizeT(topo.hcm[r][3])]]
    /\ UNCHANGED <<nvlMesh, iterOrder, topo, notTopo>>

TopoNext ==
    \/ TopoRelayStep
    \/ TopoFillStep
    \/ initHcmP2pState

(***************************************************************************)
(* Algorithm selection: selectAllReduceAlgo (lines 648-672).               *)
(***************************************************************************)
\* input.element_size()
ElementSize(dtype) == IF dtype = "Float" THEN 4 ELSE 2

\* the world-size check made ahead of the dtype test
selectAllReduceAlgoCheckFirst(in) ==
    IF in.topology = "HYBRID_CUBE_MESH" /\ in.worldSize # 8 THEN "TORCH_CHECK"
    ELSE IF in.dtype # "BFloat16" THEN "NONE"
    ELSE "ONE_SHOT"

selectAllReduceAlgo(in) ==
    LET size1 == getAlignedSize(in.numel, ElementSize(in.dtype), 1)
        sizeW == getAlignedSize(in.numel, ElementSize(in.dtype), in.worldSize)
    IN  IF in.dtype # "BFloat16" THEN "NONE"
        ELSE IF in.topology = "HYBRID_CUBE_MESH" /\ in.worldSize # 8 THEN "TORCH_CHECK"
        ELSE IF in.topology = "HYBRID_CUBE_MESH" /\ WideLeq(size1, Wide(256 * 1024))
          THEN "HCM"
        ELSE IF in.topology = "FULLY_CONNECTED" /\ WideLeq(size1, Wide(256 * 1024))
          THEN "ONE_SHOT"
        ELSE IF in.topology = "FULLY_CONNECTED" /\ WideLeq(sizeW, Wide(10 * 1024 * 1024))
          THEN "TWO_SHOT"
        ELSE "NONE"

\* element counts around the two thresholds and around 2^32
SelNumels ==
    {Wide(0), Wide(1), Wide(128 * 1024), Wide(128 * 1024 + 1),
     Wide(5 * 1024 * 1024), Wide(5 * 1024 * 1024 + 1),
     <<Limb - 1, Limb - 1>>, <<Limb, 0>>, <<Limb, 1>>}

SelIdle ==
    /\ selInput = <<>>
    /\ selResult = "pending"

SelInputs ==
    /\ selInput \in [dtype : {"BFloat16", "Half", "Float"},
                     numel : SelNumels,
                     topology : {"UNKNOWN", "FULLY_CONNECTED", "HYBRID_CUBE_MESH"},
                     worldSize : 1..(kMaxDevices + 1)]
    /\ selResult = "pending"

SelectAllReduceAlgo ==
    /\ selResult = "pending"
    /\ selInput # <<>>
    /\ selResult' = selectAllReduceAlgo(selInput)
    /\ UNCHANGED <<selInput, notSel>>

SelNext == SelectAllReduceAlgo


(***************************************************************************)
(* Synchronization primitives (lines 100-118).                             *)
(*                                                                         *)
(* A counter is a uint32_t.  The model keeps it as an integer; the only    *)
(* subtraction the code performs on it is `val - 1`, and a wrap of that    *)
(* subtraction (val = 0) would show as the value -1.                       *)
(***************************************************************************)
MaxReleases == 3
NumAcquirers == 2
Acquirers == 1..NumAcquirers

SemIdle ==
    /\ semCounter = 0
    /\ acqPc = [a \in Acquirers |-> "idle"]
    /\ acqVal = [a \in Acquirers |-> 0]
    /\ nReleases = 0
    /\ nAcquires = 0

\* releaseSignal: atomicAdd_system(addr, 1)
ReleaseSignal ==
    /\ nReleases < MaxReleases
    /\ semCounter' = semCounter + 1
    /\ nReleases' = nReleases + 1
    /\ UNCHANGED <<acqPc, acqVal, nAcquires, notSem>>

\* a thread calls acquireSignal
AcquireCall(a) ==
    /\ acqPc[a] = "idle"
    /\ acqPc' = [acqPc EXCEPT ![a] = "read"]
    /\ UNCHANGED <<semCounter, acqVal, nReleases, nAcquires, notSem>>

\* val = *signal; the loop repeats while val == 0
AcquireRead(a) ==
    /\ acqPc[a] = "read"
    /\ acqVal' = [acqVal EXCEPT ![a] = semCounter]
    /\ acqPc' = [acqPc EXCEPT ![a] = IF semCounter = 0 THEN "read" ELSE "cas"]
    /\ UNCHANGED <<semCounter, nReleases, nAcquires, notSem>>

\* A plain store in place of the compare-and-swap.
AcquireCasNoCompare(a) ==
    /\ acqPc[a] = "cas"
    /\ semCounter' = acqVal[a] - 1
    /\ nAcquires' = nAcquires + 1
    /\ acqPc' = [acqPc EXCEPT ![a] = "idle"]
    /\ UNCHANGED <<acqVal, nReleases, notSem>>

\* atomicCAS_system(addr, val, val - 1) != val repeats the loop
AcquireCas(a) ==
    /\ acqPc[a] = "cas"
    /\ IF semCounter = acqVal[a]
         THEN /\ semCounter' = acqVal[a] - 1
              /\ nAcquires' = nAcquires + 1
              /\ acqPc' = [acqPc EXCEPT ![a] = "idle"]
         ELSE /\ acqPc' = [acqPc EXCEPT ![a] = "read"]
              /\ UNCHANGED <<semCounter, nAcquires>>
    /\ UNCHANGED <<acqVal, nReleases, notSem>>

SemNext ==
    \/ ReleaseSignal
    \/ \E a \in Acquirers : AcquireCall(a)
    \/ \E a \in Acquirers : AcquireRead(a)
    \/ \E a \in Acquirers : AcquireCas(a)

(***************************************************************************)
(* The all-reduce kernels and their launchers.                             *)
(*                                                                         *)
(* Every rank issues the same sequence of calls: the same algorithm, world *)
(* size and element count.  The kernels are element-wise, so the model     *)
(* follows the values of one element index, `probe`, chosen at Init, in    *)
(* every buffer; which block's threads touch it is computed from the       *)
(* launch geometry.  bf16 values and their sums are integers.              *)
(*                                                                         *)
(* Granularity.  A block's step is a maximal sequence                      *)
(*     acquireSignal* ; loads and stores ; releaseSignal*                  *)
(* of its threads: an atomic increment commutes to the left of every step  *)
(* of another thread and a successful acquire to the right, so each run of *)
(* the kernels has the same reads, writes and results as a run of these    *)
(* steps.  The loads and atomics of one acquireSignal are in SpecSem.      *)
(***************************************************************************)
MaxWorld == 3
MaxCalls == 2

Ranks == 0..(worldSize - 1)
\* alignment factor: twoShotAllReduce aligns to worldSize * kNumelPerWarp
Factor == IF algo = "TWO_SHOT" THEN worldSize ELSE 1
N_aligned == Narrow(alignUp(Wide(numel), kNumelPerWarp * Factor))
N_per_rank == N_aligned \div worldSize
\* the size handed to getLaunchConfig
LaunchN == IF algo = "TWO_SHOT" THEN N_per_rank ELSE N_aligned
Blocks == 0..(gridDim - 1)
\* every call takes the kernels' unmasked vector store
kAlignedAlways == TRUE

\* the kAligned template argument; twoShotAllReduce: output is input itself
kAligned == N_aligned = numel
\* the relay offset taken as a count of bytes instead of bf16 elements
RelayBaseInBytes == (kMaxIntraNodeSize \div 2) \div kSizeofBFloat16

\* localRelay / remoteRelay = buffers[..] + kMaxIntraNodeSize / 2
RelayBase == kMaxIntraNodeSize \div 2

\* the value rank r's tensor holds at `probe` when it issues its k-th call
Input(r, k) == k * 10^r
\* what memory holds before anything is stored into it
Garbage == 10^kMaxDevices
\* the tensor has no element at an index >= numel
NoElement == -1

(* for (size_t i = offset; i < limit; i += stride): some thread of block b  *)
(* reaches the vector [i, i + kNumelPerThread) that holds element j.        *)
LoopVisits(b, j, limit) ==
    LET T      == blockDim
        stride == T * gridDim * kNumelPerThread
    IN  \E t \in 0..(T - 1) :
            LET offset == (T * b + t) * kNumelPerThread
                i      == j - ((j - offset) % stride)
            IN  offset <= j /\ i < limit /\ j < i + kNumelPerThread

\* LoopVisits, looked up in visitMemo where Init has stored it
Visits(b, j, limit) ==
    IF limit = visitMemo.limit /\ j \in DOMAIN visitMemo.blocks
      THEN b \in visitMemo.blocks[j]
      ELSE LoopVisits(b, j, limit)

\* a source table without the rotation: every entry is the rank itself
SrcRankOwn(r, ii) == r

\* int srcRank = (rank + ii) % kWorldSize
SrcRank(r, ii) == (r + ii) % worldSize

RECURSIVE SumSrcs(_, _, _, _)
\* sums = add_bf16x8(sums, vals[ii]) for ii in from .. kWorldSize - 1, at index j
SumSrcs(buf, r, from, j) ==
    IF from >= worldSize THEN 0
    ELSE buf[SrcRank(r, from)][j] + SumSrcs(buf, r, from + 1, j)

\* a release that adds two to each counter
ReleaseToTwice(sig, targets, b, r) ==
    [q \in Ranks |-> IF q \in targets THEN [sig[q] EXCEPT ![b][r] = @ + 2]
                                      ELSE sig[q]]

\* releaseSignal(&p2pStates[t]->sig[b][r]) for every t in targets
ReleaseTo(sig, targets, b, r) ==
    [q \in Ranks |-> IF q \in targets THEN [sig[q] EXCEPT ![b][r] = @ + 1]
                                      ELSE sig[q]]
\* the barrier opened by the first signal to arrive
CanAcquireSome(sig, r, b, sources) == \E t \in sources : sig[r][b][t] # 0

\* acquireSignal(&p2pStates[r]->sig[b][t]) can return for every t in sources
CanAcquire(sig, r, b, sources) == \A t \in sources : sig[r][b][t] # 0

\* an acquire that takes nothing off the counters it has waited for
AcquireFromKeep(sig, r, b, sources) == sig

\* acquireSignal(&p2pStates[r]->sig[b][t]) for every t in sources: one off each
AcquireFrom(sig, r, b, sources) ==
    [sig EXCEPT ![r][b] = [t \in Ranks |-> IF t \in sources THEN @[t] - 1 ELSE @[t]]]

\* p2pStates[r]->neighborRanks
NeighborRanks(r) == {hcm[r][0], hcm[r][1], hcm[r][2]}

\* p2pStates[r]->relayRank
RelayRank(r) == hcm[r][3]

\* the stream of rank r after block b has returned
AfterBlock(r, b) ==
    IF \E c \in Blocks \ {b} : blockPc[r][c] # "done" THEN "kernel"
    ELSE IF algo = "TWO_SHOT" /\ ~kAligned THEN "copyback"
    ELSE "idle"

(* oneShotAllReduce / twoShotAllReduce / hybridCubeMeshAllReduce up to the   *)
(* launch: the caller's tensor holds this call's input, cudaMemcpyAsync      *)
(* copies numel elements of it to buffers[rank], and the kernel is enqueued  *)
(* behind the copy on the same stream.                                       *)
HostLaunch(r) ==
    /\ r \in launched
    /\ hostPc[r] = "idle"
    /\ calls[r] < MaxCalls
    /\ calls' = [calls EXCEPT ![r] = @ + 1]
    /\ tensor' = [tensor EXCEPT ![r] =
                     IF probe < numel THEN Input(r, calls[r] + 1) ELSE @]
    /\ buffers' = [buffers EXCEPT ![r][probe] =
                     IF probe < numel THEN Input(r, calls[r] + 1) ELSE @]
    /\ scratchOut' = [scratchOut EXCEPT ![r] = Garbage]
    /\ hostPc' = [hostPc EXCEPT ![r] = "kernel"]
    /\ blockPc' = [blockPc EXCEPT ![r] = [b \in Blocks |-> "enter"]]
    /\ UNCHANGED <<krnArgs, notKrn, signals, signals1>>

\* a call of oneShotAllReduce or twoShotAllReduce
FcLaunch(r) == algo \in {"ONE_SHOT", "TWO_SHOT"} /\ HostLaunch(r)

\* the first call of hybridCubeMeshAllReduce
HcmLaunch(r) == algo = "HCM" /\ calls[r] = 0 /\ HostLaunch(r)

\* a further call of hybridCubeMeshAllReduce on the same buffers and states
HcmRelaunch(r) == algo = "HCM" /\ calls[r] >= 1 /\ HostLaunch(r)

\* the entry releases without the one to the rank's own state
FcEnterPeersOnly(r, b) ==
    /\ algo \in {"ONE_SHOT", "TWO_SHOT"}
    /\ hostPc[r] = "kernel"
    /\ blockPc[r][b] = "enter"
    /\ signals' = ReleaseTo(signals, Ranks \ {r}, b, r)
    /\ blockPc' = [blockPc EXCEPT ![r][b] = "barrier"]
    /\ UNCHANGED <<krnArgs, notKrn, calls, hostPc,
                   signals1, buffers, tensor, scratchOut>>

(* Fully connected kernels: if (threadIdx.x < kWorldSize) releaseSignal(     *)
(* &p2pStates[targetRank]->signals[blockIdx.x][rank]) by threads 0..W-1.     *)
FcEnter(r, b) ==
    /\ algo \in {"ONE_SHOT", "TWO_SHOT"}
    /\ hostPc[r] = "kernel"
    /\ blockPc[r][b] = "enter"
    /\ signals' = ReleaseTo(signals, Ranks, b, r)
    /\ blockPc' = [blockPc EXCEPT ![r][b] = "barrier"]
    /\ UNCHANGED <<krnArgs, notKrn, calls, hostPc,
                   signals1, buffers, tensor, scratchOut>>

(* oneShotAllReduceKernel from the acquireSignal of the entry barrier to its *)
(* end: every peer's buffer is read at the block's indices, summed, and the  *)
(* sum stored to input (lane by lane under i + ii < N when !kAligned).       *)
OneShotReduce(r, b) ==
    /\ algo = "ONE_SHOT"
    /\ hostPc[r] = "kernel"
    /\ blockPc[r][b] = "barrier"
    /\ CanAcquire(signals, r, b, Ranks)
    /\ signals' = AcquireFrom(signals, r, b, Ranks)
    /\ tensor' = IF Visits(b, probe, N_aligned) /\ (kAligned \/ probe < numel)
                   THEN [tensor EXCEPT ![r] = SumSrcs(buffers, r, 0, probe)]
                   ELSE tensor
    /\ blockPc' = [blockPc EXCEPT ![r][b] = "done"]
    /\ hostPc' = [hostPc EXCEPT ![r] = AfterBlock(r, b)]
    /\ UNCHANGED <<krnArgs, notKrn, calls,
                   signals1, buffers, scratchOut>>

(* twoShotAllReduceKernel, phase 1: from the acquireSignal of the entry      *)
(* barrier through the reduction of the rank's own shard (stored to its own  *)
(* buffer, srcs[0], and to the kernel's `input`, which is the launcher's     *)
(* `output`) to the releaseSignal on signals1.                               *)
TwoShotReduceScatter(r, b) ==
    /\ algo = "TWO_SHOT"
    /\ hostPc[r] = "kernel"
    /\ blockPc[r][b] = "barrier"
    /\ CanAcquire(signals, r, b, Ranks)
    /\ signals' = AcquireFrom(signals, r, b, Ranks)
    /\ LET N_start == N_per_rank * r
           hit     == Visits(b, probe - N_start, N_per_rank)
           sums    == SumSrcs(buffers, r, 0, probe)
       IN  /\ buffers' = IF hit THEN [buffers EXCEPT ![r][probe] = sums] ELSE buffers
           /\ tensor' = IF hit /\ kAligned THEN [tensor EXCEPT ![r] = sums] ELSE tensor
           /\ scratchOut' = IF hit /\ ~kAligned
                              THEN [scratchOut EXCEPT ![r] = sums] ELSE scratchOut
    /\ signals1' = ReleaseTo(signals1, Ranks, b, r)
    /\ blockPc' = [blockPc EXCEPT ![r][b] = "barrier1"]
    /\ UNCHANGED <<krnArgs, notKrn, calls, hostPc>>

\* phase 2 entered without the acquireSignal on signals1
TwoShotAllGatherNoAcquire(r, b) ==
    /\ algo = "TWO_SHOT"
    /\ hostPc[r] = "kernel"
    /\ blockPc[r][b] = "barrier1"
    /\ LET N_start == N_per_rank * r
           hits == {ii \in 1..(worldSize - 1) :
                      LET i == probe - N_start - (SrcRank(r, ii) - r) * N_per_rank
                      IN  Visits(b, i, N_per_rank)}
       IN  IF hits = {}
             THEN UNCHANGED <<tensor, scratchOut>>
             ELSE LET val == buffers[SrcRank(r, CHOOSE ii \in hits : TRUE)][probe]
                  IN  /\ tensor' = IF kAligned THEN [tensor EXCEPT ![r] = val] ELSE tensor
                      /\ scratchOut' = IF kAligned THEN scratchOut
                                       ELSE [scratchOut EXCEPT ![r] = val]
    /\ blockPc' = [blockPc EXCEPT ![r][b] = "done"]
    /\ hostPc' = [hostPc EXCEPT ![r] = AfterBlock(r, b)]
    /\ UNCHANGED <<krnArgs, notKrn, calls, signals, signals1, buffers>>

(* twoShotAllReduceKernel, phase 2: from the acquireSignal on signals1 to    *)
(* the end: for ii in 1..W-1 the vector at                                   *)
(*   k = N_start + i + (srcRanks[ii] - rank) * N_per_rank                    *)
(* is copied from srcs[ii] to input.  k is computed in size_t; the model     *)
(* computes the same integer, the wrapped difference times N_per_rank being  *)
(* congruent to the signed one.                                              *)
TwoShotAllGather(r, b) ==
    /\ algo = "TWO_SHOT"
    /\ hostPc[r] = "kernel"
    /\ blockPc[r][b] = "barrier1"
    /\ CanAcquire(signals1, r, b, Ranks)
    /\ signals1' = AcquireFrom(signals1, r, b, Ranks)
    /\ LET N_start == N_per_rank * r
           hits == {ii \in 1..(worldSize - 1) :
                      LET i == probe - N_start - (SrcRank(r, ii) - r) * N_per_rank
                      IN  Visits(b, i, N_per_rank)}
       IN  IF hits = {}
             THEN UNCHANGED <<tensor, scratchOut>>
             ELSE LET val == buffers[SrcRank(r, CHOOSE ii \in hits : TRUE)][probe]
                  IN  /\ tensor' = IF kAligned THEN [tensor EXCEPT ![r] = val] ELSE tensor
                      /\ scratchOut' = IF kAligned THEN scratchOut
                                       ELSE [scratchOut EXCEPT ![r] = val]
    /\ blockPc' = [blockPc EXCEPT ![r][b] = "done"]
    /\ hostPc' = [hostPc EXCEPT ![r] = AfterBlock(r, b)]
    /\ UNCHANGED <<krnArgs, notKrn, calls,
                   signals, buffers>>

(* twoShotAllReduce: if (output.data_ptr() != input.data_ptr())              *)
(* cudaMemcpyAsync(input, output, numel elements), behind the kernel.        *)
TwoShotCopyBack(r) ==
    /\ hostPc[r] = "copyback"
    /\ tensor' = IF probe < numel THEN [tensor EXCEPT ![r] = scratchOut[r]] ELSE tensor
    /\ hostPc' = [hostPc EXCEPT ![r] = "idle"]
    /\ UNCHANGED <<krnArgs, notKrn, calls, blockPc,
                   signals, signals1, buffers, scratchOut>>

\* the entry releases by threads 0 and 1 only: neighborRanks[2] gets none
HcmEnterTwoThreads(r, b) ==
    /\ algo = "HCM"
    /\ hostPc[r] = "kernel"
    /\ blockPc[r][b] = "enter"
    /\ signals' = ReleaseTo(signals, {hcm[r][0], hcm[r][1]}, b, r)
    /\ blockPc' = [blockPc EXCEPT ![r][b] = "barrier"]
    /\ UNCHANGED <<krnArgs, notKrn, calls, hostPc,
                   signals1, buffers, tensor, scratchOut>>

(* hybridCubeMeshAllReduceKernel: if (threadIdx.x < 3) releaseSignal(       *)
(* &p2pStates[targetRank]->signals[blockIdx.x][rank]) for the three          *)
(* neighborRanks of the rank's own state.                                    *)
HcmEnter(r, b) ==
    /\ algo = "HCM"
    /\ hostPc[r] = "kernel"
    /\ blockPc[r][b] = "enter"
    /\ signals' = ReleaseTo(signals, NeighborRanks(r), b, r)
    /\ blockPc' = [blockPc EXCEPT ![r][b] = "barrier"]
    /\ UNCHANGED <<krnArgs, notKrn, calls, hostPc,
                   signals1, buffers, tensor, scratchOut>>

(* hybridCubeMeshAllReduceKernel from the acquireSignal of the entry barrier *)
(* through the 4-way sum of srcs = {own, neighborRanks[0..2]} stored to      *)
(* localRelay to the releaseSignal towards relayRank.                        *)
HcmPartialReduce(r, b) ==
    /\ algo = "HCM"
    /\ hostPc[r] = "kernel"
    /\ blockPc[r][b] = "barrier"
    /\ CanAcquire(signals, r, b, NeighborRanks(r))
    /\ signals' = ReleaseTo(AcquireFrom(signals, r, b, NeighborRanks(r)),
                            {RelayRank(r)}, b, r)
    /\ buffers' = IF Visits(b, probe, N_aligned)
                    THEN [buffers EXCEPT ![r][RelayBase + probe] =
                            buffers[r][probe] + buffers[hcm[r][0]][probe]
                            + buffers[hcm[r][1]][probe] + buffers[hcm[r][2]][probe]]
                    ELSE buffers
    /\ blockPc' = [blockPc EXCEPT ![r][b] = "relay"]
    /\ UNCHANGED <<krnArgs, notKrn, calls, hostPc, signals1, tensor, scratchOut>>

\* phase 2 entered without the acquireSignal on the relay's slot
HcmFinalReduceNoAcquire(r, b) ==
    /\ algo = "HCM"
    /\ hostPc[r] = "kernel"
    /\ blockPc[r][b] = "relay"
    /\ tensor' = IF Visits(b, probe, N_aligned) /\ (kAligned \/ probe < numel)
                   THEN [tensor EXCEPT ![r] = buffers[r][RelayBase + probe]
                                    + buffers[RelayRank(r)][RelayBase + probe]]
                   ELSE tensor
    /\ blockPc' = [blockPc EXCEPT ![r][b] = "done"]
    /\ hostPc' = [hostPc EXCEPT ![r] = AfterBlock(r, b)]
    /\ UNCHANGED <<krnArgs, notKrn, calls, signals, signals1, buffers, scratchOut>>

(* hybridCubeMeshAllReduceKernel from the acquireSignal on the relay's slot  *)
(* to the end: localRelay[i] + remoteRelay[i] stored to input (lane by lane  *)
(* under i + ii < M when !kAligned).                                         *)
HcmFinalReduce(r, b) ==
    /\ algo = "HCM"
    /\ hostPc[r] = "kernel"
    /\ blockPc[r][b] = "relay"
    /\ CanAcquire(signals, r, b, {RelayRank(r)})
    /\ signals' = AcquireFrom(signals, r, b, {RelayRank(r)})
    /\ tensor' = IF Visits(b, probe, N_aligned) /\ (kAligned \/ probe < numel)
                   THEN [tensor EXCEPT ![r] = buffers[r][RelayBase + probe]
                                    + buffers[RelayRank(r)][RelayBase + probe]]
                   ELSE tensor
    /\ blockPc' = [blockPc EXCEPT ![r][b] = "done"]
    /\ hostPc' = [hostPc EXCEPT ![r] = AfterBlock(r, b)]
    /\ UNCHANGED <<krnArgs, notKrn, calls, signals1, buffers, scratchOut>>

\* element counts: one element, one unit, and the two-block sizes around 33 units
NumelChoices(a, w) ==
    LET u == kNumelPerWarp * (IF a = "TWO_SHOT" THEN w ELSE 1)
    IN  {1, u, 32 * u + 1, 33 * u}

KrnIdle ==
    /\ algo = "NONE"
    /\ worldSize = 0
    /\ numel = 0
    /\ probe = 0
    /\ gridDim = 0
    /\ blockDim = 0
    /\ visitMemo = <<>>
    /\ launched = {}
    /\ hcm = <<>>
    /\ calls = <<>>
    /\ hostPc = <<>>
    /\ blockPc = <<>>
    /\ signals = <<>>
    /\ signals1 = <<>>
    /\ buffers = <<>>
    /\ tensor = <<>>
    /\ scratchOut = <<>>

\* state after initP2pState on every rank (zero-filled signals) and before any call
KrnStart(absent) ==
    /\ launched = Ranks \ absent
    /\ calls = [r \in Ranks |-> 0]
    /\ hostPc = [r \in Ranks |-> "idle"]
    /\ blockPc = [r \in Ranks |-> [b \in Blocks |-> "done"]]
    /\ signals = [r \in Ranks |-> [b \in Blocks |-> [p \in Ranks |-> 0]]]
    /\ signals1 = [r \in Ranks |-> [b \in Blocks |-> [p \in Ranks |-> 0]]]
    /\ buffers = [r \in Ranks |-> [j \in {probe, RelayBase + probe} |-> Garbage]]
    /\ tensor = [r \in Ranks |-> IF probe < numel THEN Garbage ELSE NoElement]
    /\ scratchOut = [r \in Ranks |-> Garbage]

\* the launch geometry of the call, and the memo of Visits for the probe
KrnGeometry ==
    /\ gridDim = getLaunchConfig(Wide(LaunchN)).blocks
    /\ blockDim = getLaunchConfig(Wide(LaunchN)).threads
    /\ visitMemo = [limit |-> LaunchN,
                    blocks |-> [j \in {probe - w * N_per_rank : w \in Ranks} |->
                                  {b \in Blocks : LoopVisits(b, j, LaunchN)}]]

FcConfig ==
    /\ algo \in {"ONE_SHOT", "TWO_SHOT"}
    /\ worldSize \in 2..MaxWorld
    /\ numel \in NumelChoices(algo, worldSize)
    /\ probe \in {j \in {0, N_per_rank - 1, N_per_rank, numel - 1, numel, N_aligned - 1} :
                    j < N_aligned}
    /\ KrnGeometry
    /\ hcm = <<>>

\* eight ranks whose states hold the mapping resolved from the reference mesh
HcmConfig ==
    /\ algo = "HCM"
    /\ worldSize = kMaxDevices
    /\ numel \in {1, kNumelPerWarp}
    /\ probe \in {j \in {0, numel} : j < N_aligned}
    /\ KrnGeometry
    /\ hcm = getHybridCubeMesh(ReferenceMesh, "descending").hcm

\* sequences of calls of a fully connected algorithm
FcNext ==
    \/ \E r \in Ranks : FcLaunch(r)
    \/ \E r \in Ranks : \E b \in Blocks : FcEnter(r, b)
    \/ \E r \in Ranks : \E b \in Blocks : OneShotReduce(r, b)
    \/ \E r \in Ranks : \E b \in Blocks : TwoShotReduceScatter(r, b)
    \/ \E r \in Ranks : \E b \in Blocks : TwoShotAllGather(r, b)
    \/ \E r \in Ranks : TwoShotCopyBack(r)

\* one call of hybridCubeMeshAllReduce on each launching rank
HcmNext ==
    \/ \E r \in Ranks : HcmLaunch(r)
    \/ \E r \in Ranks : \E b \in Blocks : HcmEnter(r, b)
    \/ \E r \in Ranks : \E b \in Blocks : HcmPartialReduce(r, b)
    \/ \E r \in Ranks : \E b \in Blocks : HcmFinalReduce(r, b)

(***************************************************************************)
(* The host helpers on their own: alignUp (lines 406-408) and              *)
(* getLaunchConfig (lines 423-437), each applied once to an argument drawn *)
(* from the values its callers can pass.                                   *)
(***************************************************************************)
FnIdle ==
    /\ fnArgs = <<>>
    /\ fnResult = <<>>

\* element counts around the multiples of kNumelPerWarp * factor, around the
\* capacity and around 2^32 (numel() is an int64_t)
AlignNumels ==
    {Wide(0), Wide(1), Wide(255), Wide(256), Wide(257),
     Wide(2047), Wide(2048), Wide(2049),
     Wide(5 * 1024 * 1024), Wide(5 * 1024 * 1024 + 1),
     <<Limb \div 2, 0>>,
     <<Limb - 1, Limb - 2048>>, <<Limb - 1, Limb - 2047>>,
     <<Limb - 1, Limb - 256>>, <<Limb - 1, Limb - 255>>,
     <<Limb - 1, Limb - 1>>, <<Limb, 0>>, <<Limb, 1>>}

\* factor is 1 in oneShotAllReduce and hybridCubeMeshAllReduce and worldSize
\* in twoShotAllReduce
AlignInputs ==
    /\ fnArgs \in [a : AlignNumels, factor : 1..kMaxDevices]
    /\ fnResult = <<>>

AlignUpCall ==
    /\ fnResult = <<>>
    /\ fnArgs # <<>>
    /\ fnResult' = alignUp(fnArgs.a, kNumelPerWarp * fnArgs.factor)
    /\ UNCHANGED <<fnArgs, notFn>>

AlignNext == AlignUpCall

\* the aligned lengths that pass TORCH_CHECK(N_aligned <= kMaxIntraNodeSize /
\* sizeof(at::BFloat16)), all of them, and some longer ones below 2^32
LaunchNumels ==
    {Wide(kNumelPerWarp * m) : m \in 1..(kMaxIntraNodeSize \div (2 * kNumelPerWarp))}
      \cup {<<Limb \div 2, 0>>, <<Limb - 1, 0>>, <<Limb - 1, Limb - 256>>}

LaunchInputs ==
    /\ fnArgs \in [N : LaunchNumels]
    /\ fnResult = <<>>

GetLaunchConfigCall ==
    /\ fnResult = <<>>
    /\ fnArgs # <<>>
    /\ fnResult' = getLaunchConfig(fnArgs.N)
    /\ UNCHANGED <<fnArgs, notFn>>

LaunchNext == GetLaunchConfigCall

(***************************************************************************)
(* The index arithmetic of twoShotAllReduceKernel (lines 190-194, 204-249) *)
(* on its own.  A size_t of the kernel is kept as its 8 bytes, lowest      *)
(* first, and sums, differences and products are computed byte by byte     *)
(* with the carry out of the top byte dropped: the arithmetic modulo 2^64  *)
(* of the device.                                                          *)
(***************************************************************************)
Byte == 256
\* the size_t holding n, 0 <= n < 2^31
U64(n) == [d \in 1..8 |-> IF d <= 4 THEN (n \div Byte^(d - 1)) % Byte ELSE 0]
\* the integer a size_t below 2^31 holds, -1 for a larger one
U64Small(x) ==
    IF x[5] = 0 /\ x[6] = 0 /\ x[7] = 0 /\ x[8] = 0 /\ x[4] < 128
      THEN x[1] + Byte * x[2] + Byte * Byte * x[3] + Byte * Byte * Byte * x[4]
      ELSE -1

RECURSIVE U64AddFrom(_, _, _, _)
U64AddFrom(x, y, d, carry) ==
    IF d > 8 THEN <<>>
    ELSE LET sum == x[d] + y[d] + carry
         IN  <<sum % Byte>> \o U64AddFrom(x, y, d + 1, sum \div Byte)
\* x + y on size_t
U64Add(x, y) == U64AddFrom(x, y, 1, 0)

RECURSIVE U64SubFrom(_, _, _, _)
U64SubFrom(x, y, d, borrow) ==
    IF d > 8 THEN <<>>
    ELSE LET diff == x[d] - y[d] - borrow
         IN  <<(diff + Byte) % Byte>>
               \o U64SubFrom(x, y, d + 1, IF diff < 0 THEN 1 ELSE 0)
\* x - y on size_t: wraps when y > x
U64Sub(x, y) == U64SubFrom(x, y, 1, 0)

RECURSIVE U64ScaleFrom(_, _, _, _)
U64ScaleFrom(x, m, d, carry) ==
    IF d > 8 THEN <<>>
    ELSE LET prod == x[d] * m + carry
         IN  <<prod % Byte>> \o U64ScaleFrom(x, m, d + 1, prod \div Byte)
\* x shifted up by n bytes, the top n bytes dropped
U64ShiftBytes(x, n) == [d \in 1..8 |-> IF d <= n THEN 0 ELSE x[d - n]]

RECURSIVE U64MulFrom(_, _, _)
U64MulFrom(x, y, d) ==
    IF d > 8 THEN U64(0)
    ELSE U64Add(U64ShiftBytes(U64ScaleFrom(x, y[d], 1, 0), d - 1),
                U64MulFrom(x, y, d + 1))
\* x * y on size_t
U64Mul(x, y) == U64MulFrom(x, y, 1)

\* the index with the difference of the ranks taken the other way round
TwoShotIndexReversed(W, rank, nPerRank, ii, i) ==
    LET srcRank == (rank + ii) % W
        N_start == U64Mul(U64(nPerRank), U64(rank))
    IN  IF ii = 0 THEN U64Add(N_start, U64(i))
        ELSE U64Add(U64Add(N_start, U64(i)),
                    U64Mul(U64Sub(U64(rank), U64(srcRank)), U64(nPerRank)))

\* size_t k = N_start + i + (srcRanks[ii] - rank) * N_per_rank, line 243,
\* with N_start = N_per_rank * rank (line 194); for ii = 0 the index of
\* phase 1, N_start + i (lines 216-228)
TwoShotIndex(W, rank, nPerRank, ii, i) ==
    LET srcRank == (rank + ii) % W
        N_start == U64Mul(U64(nPerRank), U64(rank))
    IN  IF ii = 0 THEN U64Add(N_start, U64(i))
        ELSE U64Add(U64Add(N_start, U64(i)),
                    U64Mul(U64Sub(U64(srcRank), U64(rank)), U64(nPerRank)))

\* the values of i the loops of lines 211 and 240 take over all threads: every
\* multiple of kNumelPerThread below N_per_rank, all of them for a short
\* shard and the ends for a long one
ShardOffsets(nPerRank) ==
    IF nPerRank <= 2 * kNumelPerWarp
      THEN {kNumelPerThread * v : v \in 0..(nPerRank \div kNumelPerThread - 1)}
      ELSE {0, kNumelPerThread, nPerRank - kNumelPerThread}

\* the shard lengths: one and two warps' worth, and the longest ones that
\* pass the capacity check for 8 and for 2 ranks
ShardLengths ==
    {kNumelPerWarp, 2 * kNumelPerWarp,
     (kMaxIntraNodeSize \div kSizeofBFloat16) \div kMaxDevices,
     (kMaxIntraNodeSize \div kSizeofBFloat16) \div 2}

IndexInputs ==
    /\ fnArgs \in {a \in [W : 2..kMaxDevices, rank : Devices, N_per_rank : ShardLengths] :
                      /\ a.rank < a.W
                      /\ a.N_per_rank * a.W <= kMaxIntraNodeSize \div kSizeofBFloat16}
    /\ fnResult = <<>>

\* every index the threads of one rank's kernel compute in one call
TwoShotIndexCall ==
    /\ fnResult = <<>>
    /\ fnArgs # <<>>
    /\ fnResult' = [ii \in 0..(fnArgs.W - 1) |->
                      [i \in ShardOffsets(fnArgs.N_per_rank) |->
                          TwoShotIndex(fnArgs.W, fnArgs.rank, fnArgs.N_per_rank, ii, i)]]
    /\ UNCHANGED <<fnArgs, notFn>>

IndexNext == TwoShotIndexCall

(***************************************************************************)
(* One call of allReduce on one rank, host side (lines 414-421, 488-692):  *)
(* the switch on algo, checkInput, the alignment and its TORCH_CHECKs, the *)
(* cudaMemcpyAsync into buffers[rank] and the kernel launch, one step      *)
(* each.  callPc is "allReduce" (at the switch), "checkInput", "align",    *)
(* "memcpy", "launch", "returned", or "failed" (an exception left the      *)
(* call).                                                                  *)
(***************************************************************************)
WideDiv(x, b) == <<x[1] \div b, ((x[1] % b) * Limb + x[2]) \div b>>
\* x % kNumelPerWarp, kNumelPerWarp dividing 2^16
WideModWarp(x) == x[2] % kNumelPerWarp

CallIdle ==
    /\ callArgs = <<>>
    /\ callPc = "idle"
    /\ aligned = <<>>
    /\ staged = <<>>
    /\ kernel = "none"

\* "INVALID" is any value of the enum type other than the four enumerators
CallInputs ==
    /\ callArgs \in [algo : {"NONE", "ONE_SHOT", "TWO_SHOT", "HCM", "INVALID"},
                     dtype : {"BFloat16", "Float"},
                     dense : BOOLEAN,
                     device : {"cpu", "rank", "other"},
                     numel : SelNumels,
                     worldSize : 1..(kMaxDevices + 1)]
    /\ callPc = "allReduce"
    /\ aligned = <<>>
    /\ staged = <<>>
    /\ kernel = "none"

\* allReduce, lines 681-691
CallDispatch ==
    /\ callPc = "allReduce"
    /\ callPc' = IF callArgs.algo \in {"ONE_SHOT", "TWO_SHOT", "HCM"}
                   THEN "checkInput" ELSE "failed"
    /\ UNCHANGED <<callArgs, aligned, staged, kernel, notCall>>

\* checkInput, lines 414-421
checkInput(in) ==
    /\ in.dtype = "BFloat16"
    /\ in.dense
    /\ in.device # "cpu"
    /\ in.device = "rank"

CallCheckInput ==
    /\ callPc = "checkInput"
    /\ callPc' = IF checkInput(callArgs) THEN "align" ELSE "failed"
    /\ UNCHANGED <<callArgs, aligned, staged, kernel, notCall>>

\* lines 496-498, 553-556, 612-614
AlignFactor(in) == IF in.algo = "TWO_SHOT" THEN in.worldSize ELSE 1

CapacityCheck(in, nAligned) ==
    /\ WideModWarp(IF in.algo = "TWO_SHOT" THEN WideDiv(nAligned, in.worldSize)
                                           ELSE nAligned) = 0
    /\ WideLeq(nAligned, Wide(kMaxIntraNodeSize \div kSizeofBFloat16))

CallAlign ==
    /\ callPc = "align"
    /\ aligned' = alignUp(callArgs.numel, kNumelPerWarp * AlignFactor(callArgs))
    /\ callPc' = IF CapacityCheck(callArgs, aligned') THEN "memcpy" ELSE "failed"
    /\ UNCHANGED <<callArgs, staged, kernel, notCall>>

\* cudaMemcpyAsync(buffers[rank], input.data_ptr(),
\*                 input.numel() * input.element_size(), ...)
CallMemcpy ==
    /\ callPc = "memcpy"
    /\ staged' = WideMul(callArgs.numel, ElementSize(callArgs.dtype))
    /\ callPc' = "launch"
    /\ UNCHANGED <<callArgs, aligned, kernel, notCall>>

\* the X macros: the fully connected kernels are instantiated for the world
\* sizes 2..8 and launched if worldSize is one of them
KernelLaunched(in) ==
    IF in.algo = "HCM" THEN "hybridCubeMeshAllReduceKernel"
    ELSE IF in.worldSize \notin 2..kMaxDevices THEN "none"
    ELSE IF in.algo = "ONE_SHOT" THEN "oneShotAllReduceKernel"
    ELSE "twoShotAllReduceKernel"

\* getLaunchConfig(N_aligned, ...), in twoShotAllReduce getLaunchConfig(N_per_rank, ...)
CallLaunchConfig(in, nAligned) ==
    getLaunchConfig(IF in.algo = "TWO_SHOT" THEN WideDiv(nAligned, in.worldSize)
                                            ELSE nAligned)

\* a launch of a grid of zero threads is an invalid configuration, which
\* C10_CUDA_KERNEL_LAUNCH_CHECK() throws; no kernel runs
CallLaunch ==
    /\ callPc = "launch"
    /\ LET name == KernelLaunched(callArgs)
           ok   == CallLaunchConfig(callArgs, aligned).threads > 0
       IN  /\ kernel' = IF ok THEN name ELSE "none"
           /\ callPc' = IF name # "none" /\ ~ok THEN "failed" ELSE "returned"
    /\ UNCHANGED <<callArgs, aligned, staged, notCall>>

CallNext ==
    \/ CallDispatch
    \/ CallCheckInput
    \/ CallAlign
    \/ CallMemcpy
    \/ CallLaunch

\* the ranks whose host goes on to further calls while the others have yet
\* to issue theirs: the quad of the reference mesh that holds the last rank
Repeaters == {r \in Devices : r \div 4 = 1}

\* back-to-back calls of hybridCubeMeshAllReduce
HcmSeqNext ==
    \/ HcmNext
    \/ \E r \in Repeaters : HcmRelaunch(r)

\* every rank launches, or all but one do
Absences == {{}} \cup {{a} : a \in Ranks}

SemInit == SemIdle /\ KrnIdle /\ TopoIdle /\ SelIdle /\ FnIdle /\ CallIdle

SpecSem == SemInit /\ [][SemNext]_vars

Init ==
    /\ SemIdle /\ TopoIdle /\ SelIdle /\ FnIdle /\ CallIdle
    /\ FcConfig \/ HcmConfig
    /\ \E absent \in Absences : KrnStart(absent)

Next == FcNext \/ HcmNext

Spec == Init /\ [][Next]_vars

\* fully connected calls that every rank launches, on one block with the copy
\* back and on two blocks; the steps a block can take do not depend on the
\* element followed, which is the first one
FcInit ==
    /\ Init
    /\ algo # "HCM" /\ launched = Ranks /\ probe = 0
    /\ (gridDim = 1 /\ ~kAligned) \/ (gridDim = 2 /\ kAligned)

\* eight ranks with the mapping of the reference mesh, zeroed states, one
\* element on one block
HcmSeqInit ==
    /\ Init
    /\ algo = "HCM" /\ launched = Ranks /\ numel = 1 /\ probe = 0

SpecHcmSeq == HcmSeqInit /\ [][HcmSeqNext]_vars

TopoInit == SemIdle /\ KrnIdle /\ SelIdle /\ FnIdle /\ CallIdle /\ TopoInputs

SpecTopo == TopoInit /\ [][TopoNext]_vars

SelInit == SemIdle /\ KrnIdle /\ TopoIdle /\ FnIdle /\ CallIdle /\ SelInputs

SpecSelect == SelInit /\ [][SelNext]_vars

AlignInit == SemIdle /\ KrnIdle /\ TopoIdle /\ SelIdle /\ CallIdle /\ AlignInputs

SpecAlign == AlignInit /\ [][AlignNext]_vars

LaunchInit == SemIdle /\ KrnIdle /\ TopoIdle /\ SelIdle /\ CallIdle /\ LaunchInputs

SpecLaunch == LaunchInit /\ [][LaunchNext]_vars

IndexInit == SemIdle /\ KrnIdle /\ TopoIdle /\ SelIdle /\ CallIdle /\ IndexInputs

SpecIndex == IndexInit /\ [][IndexNext]_vars

CallInit == SemIdle /\ KrnIdle /\ TopoIdle /\ SelIdle /\ FnIdle /\ CallInputs

SpecCall == CallInit /\ [][CallNext]_vars

(* Every block of a grid of at most kMaxAllReduceBlocks blocks is resident   *)
(* and its spinning threads keep running, and a stream runs what is enqueued *)
(* on it: a step that can be taken is taken.                                 *)
FairSpec == FcInit /\ [][FcNext]_vars /\ WF_vars(FcNext)


\* back-to-back calls of hybridCubeMeshAllReduce on every rank
HcmAllNext ==
    \/ HcmNext
    \/ \E r \in Ranks : HcmRelaunch(r)

\* the same eight ranks; the steps a block can take do not depend on the
\* values it loads, and the element followed is the padding lane after the
\* single element, which no call stages
HcmAllInit ==
    /\ Init
    /\ algo = "HCM" /\ launched = Ranks /\ numel = 1 /\ probe = numel

(* The same for the blocks and streams of the hybrid cube mesh kernels.     *)
FairHcmSpec == HcmAllInit /\ [][HcmAllNext]_vars /\ WF_vars(HcmAllNext)


(***************************************************************************)
(* Properties of the kernels.                                              *)
(***************************************************************************)
RECURSIVE SumInputs(_, _)
\* Input(0, k) + ... + Input(n - 1, k)
SumInputs(n, k) == IF n = 0 THEN 0 ELSE Input(n - 1, k) + SumInputs(n - 1, k)

\* every rank has issued exactly k calls and its stream has drained
AllCompleted(k) ==
    /\ launched = Ranks
    /\ \A r \in Ranks : calls[r] = k /\ hostPc[r] = "idle"

\* C1: one-shot (small-buffer) all-reduce, single call: once every rank's
\* kernel has completed, the probed element (any index below numel, aligned
\* or unaligned numel) of every rank's tensor is the sum of all ranks' inputs
\* of that call, each rank counted once.
C1_OneShotSingleCall ==
    (algo = "ONE_SHOT" /\ AllCompleted(1) /\ probe < numel)
        => \A r \in Ranks : tensor[r] = SumInputs(worldSize, 1)

\* the largest world, an unaligned numel on two blocks, its last element
C1_Witness ==
    /\ algo = "ONE_SHOT" /\ AllCompleted(1)
    /\ worldSize = MaxWorld /\ ~kAligned /\ gridDim = 2 /\ probe = numel - 1
    /\ \A r \in Ranks : tensor[r] = SumInputs(worldSize, 1)

\* C2: two-shot (sharded) all-reduce, single call: once every rank has
\* completed (copy back included), the probed element of every rank's tensor
\* is the sum of all ranks' inputs, and the buffer of the rank that owns the
\* element's shard holds that sum, stored there in phase 1.
C2_TwoShotSingleCall ==
    (algo = "TWO_SHOT" /\ AllCompleted(1) /\ probe < numel)
        => /\ \A r \in Ranks : tensor[r] = SumInputs(worldSize, 1)
           /\ buffers[probe \div N_per_rank][probe] = SumInputs(worldSize, 1)

\* the largest world, an unaligned numel on two blocks, an element of the
\* last rank's shard: ranks 0 .. W-2 got it in phase 2, through the copy back
C2_Witness ==
    /\ algo = "TWO_SHOT" /\ AllCompleted(1)
    /\ worldSize = MaxWorld /\ ~kAligned /\ gridDim = 2
    /\ probe < numel /\ probe \div N_per_rank = worldSize - 1
    /\ \A r \in Ranks : tensor[r] = SumInputs(worldSize, 1)

\* each rank's three mesh neighbours and itself, and its relay's three mesh
\* neighbours and the relay, partition the eight ranks
HcmPartitions ==
    \A r \in Ranks :
        LET own   == NeighborRanks(r) \cup {r}
            other == NeighborRanks(RelayRank(r)) \cup {RelayRank(r)}
        IN  /\ Cardinality(own) = 4 /\ Cardinality(other) = 4
            /\ own \cap other = {} /\ own \cup other = Ranks

\* C3: hybrid cube mesh (mesh-relay) all-reduce, single call, eight ranks, a
\* mapping that partitions the ranks as above: once every rank has completed,
\* the probed element of every rank's tensor is the sum of the eight inputs.
C3_HcmSingleCall ==
    (algo = "HCM" /\ worldSize = 8 /\ HcmPartitions /\ AllCompleted(1) /\ probe < numel)
        => \A r \in Ranks : tensor[r] = SumInputs(worldSize, 1)

C3_Witness ==
    /\ algo = "HCM" /\ worldSize = 8 /\ HcmPartitions /\ AllCompleted(1)
    /\ ~kAligned /\ probe < numel
    /\ \A r \in Ranks : tensor[r] = SumInputs(worldSize, 1)

\* C4: one-shot all-reduce, repeated calls: the handshake keeps a rank from
\* staging call k+1 while a peer still reads for call k, so that whenever a
\* block of rank r is about to read the probed element for r's current call,
\* every peer's buffer holds what that peer staged for that same call.
C4_ReadsSeeOwnCall ==
    algo = "ONE_SHOT" =>
        \A r \in Ranks : \A b \in Blocks : \A q \in Ranks :
            (/\ hostPc[r] = "kernel" /\ blockPc[r][b] = "barrier"
             /\ CanAcquire(signals, r, b, Ranks)
             /\ Visits(b, probe, N_aligned) /\ probe < numel)
                => buffers[q][probe] = Input(q, calls[r])

\* C5: one counter under concurrent releases and acquires: the counter is
\* the number of releases minus the number of successful acquires, it is
\* never below zero, and an acquire attempts its decrement only on a nonzero
\* observed value.
C5_CountingSemaphore ==
    /\ semCounter = nReleases - nAcquires
    /\ semCounter >= 0
    /\ \A a \in Acquirers : acqPc[a] = "cas" => acqVal[a] > 0

\* an acquire has succeeded and another thread is about to compare-and-swap
\* with a value the counter no longer holds
C5_Witness ==
    /\ nAcquires >= 1
    /\ \E a \in Acquirers : acqPc[a] = "cas" /\ acqVal[a] # semCounter

\* rank r is in a fully connected kernel that every rank launches
FcKernelRunning(r) ==
    /\ algo \in {"ONE_SHOT", "TWO_SHOT"} /\ launched = Ranks
    /\ r \in Ranks /\ hostPc[r] = "kernel"

\* every block of rank r's kernel has returned
KernelReturned(r) == r \in Ranks /\ hostPc[r] # "kernel"

\* C6: fully connected algorithms, every rank launching the same kernel from
\* zeroed counters, under fair scheduling: every kernel of every call of the
\* sequence terminates (each of its blocks has returned from its acquires).
C6_FcKernelsTerminate ==
    \A r \in 0..(MaxWorld - 1) : FcKernelRunning(r) ~> KernelReturned(r)

\* the last call of the sequence has completed on every rank of the largest
\* world, on two blocks per kernel
C6_Witness ==
    /\ algo \in {"ONE_SHOT", "TWO_SHOT"} /\ AllCompleted(MaxCalls)
    /\ worldSize = MaxWorld /\ gridDim = 2

\* C7: one rank never launches: for each of the three algorithms no other
\* rank's kernel ever completes; a rank that has launched stays in its kernel.
C7_MissingPeerBlocksAll ==
    launched # Ranks =>
        \A r \in Ranks : calls[r] = 0 \/ hostPc[r] = "kernel"

\* hybrid cube mesh, one rank absent, all others launched and no step left:
\* some rank waits at the entry barrier, some has passed it and waits for its
\* relay
C7_Witness ==
    /\ algo = "HCM" /\ launched # Ranks
    /\ \A r \in launched : hostPc[r] = "kernel"
    /\ \E r \in launched : \E b \in Blocks : blockPc[r][b] = "barrier"
    /\ \E r \in launched : \E b \in Blocks : blockPc[r][b] = "relay"
    /\ ~ENABLED Next

\* the adjacency is symmetric, every rank has exactly 4 direct neighbours and
\* exactly one of them has a neighbour set disjoint from the rank's own
ValidMesh(mesh) ==
    \A i \in Devices :
        /\ \A j \in mesh[i] : i \in mesh[j]
        /\ Cardinality(mesh[i]) = 4
        /\ Cardinality({j \in mesh[i] : mesh[j] \cap mesh[i] = {}}) = 1

\* getHybridCubeMesh has returned or thrown
TopoEnded == topo.pc \in {"done", "failed"}

\* slot k of X is Y implies slot k of Y is X, in each of the 3 mesh slots
SlotsSymmetric(h) ==
    \A i \in Devices : \A k \in 0..2 :
        h[i][k] \in Devices /\ h[h[i][k]][k] = i

\* the relay of every rank is a device sharing no neighbour with it
RelaysDisjoint(h, mesh) ==
    \A i \in Devices :
        h[i][3] \in Devices /\ mesh[h[i][3]] \cap mesh[i] = {}

\* C8: on every valid hybrid cube mesh adjacency getHybridCubeMesh completes
\* without failure, and its mapping is symmetric in each of the 3 mesh slots
\* with a neighbour-disjoint relay for every rank.
C8_ValidMeshResolves ==
    (ValidMesh(nvlMesh) /\ TopoEnded)
        => /\ topo.pc = "done"
           /\ SlotsSymmetric(topo.hcm)
           /\ RelaysDisjoint(topo.hcm, nvlMesh)

\* C9: for every adjacency, getHybridCubeMesh fails or returns a mapping in
\* which every rank had exactly 4 neighbours and each of its 4 slots holds a
\* rank in 0..7; no slot holding -1 is stored into a peer sync state.
C9_AllSlotsAssignedOrFails ==
    /\ topo.pc = "done" =>
          \A i \in Devices :
              /\ Cardinality(nvlMesh[i]) = 4
              /\ \A k \in 0..3 : topo.hcm[i][k] \in Devices
    /\ hcmState # <<>> =>
          \A r \in Devices :
              /\ \A k \in 0..2 :
                    \E d \in Devices : hcmState[r].neighborRanks[k] = IntToSizeT(d)
              /\ \E d \in Devices : hcmState[r].relayRank = IntToSizeT(d)

\* C10: selectAllReduceAlgo returns NONE, raising nothing, for every input
\* whose dtype is not bf16, whatever the topology, the size and the world
\* size (hybrid cube mesh with a world size other than 8 included).
C10_NonBf16SelectsNone ==
    (selResult # "pending" /\ selInput.dtype # "BFloat16") => selResult = "NONE"

\* a float input on a hybrid cube mesh of 7 ranks has been answered
C10_Witness ==
    /\ selResult = "NONE"
    /\ selInput.dtype = "Float"
    /\ selInput.topology = "HYBRID_CUBE_MESH"
    /\ selInput.worldSize = 7

(***************************************************************************)
(* Reference arithmetic for the claims about sizes: the same quantities    *)
(* over the naturals, with no 32-bit parameter in between.                 *)
(***************************************************************************)
\* the smallest multiple of b that is >= n, for a size_t n and 0 < b < 2^12
ExactAlignUp(n, b) ==
    LET lo == n[2] + b - 1
        hi == n[1] + lo \div Limb
        r  == hi % b
    IN  WideMul(<<hi \div b, (r * Limb + (lo % Limb)) \div b>>, b)

\* bytes of a bf16 tensor of numel elements padded to a multiple of
\* kNumelPerWarp * factor elements
ExactAlignedBytes(numelW, factor) ==
    WideMul(ExactAlignUp(numelW, kNumelPerWarp * factor), kSizeofBFloat16)

kSmallBufferBytes == 256 * 1024

\* C11: on a fully connected topology with a bf16 input, selectAllReduceAlgo
\* returns ONE_SHOT exactly when the byte size padded to 256 elements is at
\* most 256 KiB, otherwise TWO_SHOT exactly when the byte size padded to
\* worldSize * 256 elements is at most 10 MiB, otherwise NONE.
C11_FullyConnectedThresholds ==
    (/\ selResult # "pending"
     /\ selInput.dtype = "BFloat16"
     /\ selInput.topology = "FULLY_CONNECTED")
    => selResult =
         IF WideLeq(ExactAlignedBytes(selInput.numel, 1), Wide(kSmallBufferBytes))
           THEN "ONE_SHOT"
         ELSE IF WideLeq(ExactAlignedBytes(selInput.numel, selInput.worldSize),
                         Wide(kMaxIntraNodeSize))
           THEN "TWO_SHOT"
         ELSE "NONE"

\* C11 away from 2^32: the same statement for the element counts that fit
\* alignUp's 32-bit parameter together with the rounding term
C11_HoldsBelowWrap ==
    (/\ selResult # "pending"
     /\ selInput.dtype = "BFloat16"
     /\ selInput.topology = "FULLY_CONNECTED"
     /\ selInput.numel[1] < Limb - 1)
    => selResult =
         IF WideLeq(ExactAlignedBytes(selInput.numel, 1), Wide(kSmallBufferBytes))
           THEN "ONE_SHOT"
         ELSE IF WideLeq(ExactAlignedBytes(selInput.numel, selInput.worldSize),
                         Wide(kMaxIntraNodeSize))
           THEN "TWO_SHOT"
         ELSE "NONE"

\* C12: on a hybrid cube mesh with a bf16 input, a world size other than 8
\* fails the TORCH_CHECK for every size; with world size 8 the selector
\* returns HCM exactly when the byte size padded to 256 elements is at most
\* 256 KiB and NONE for every larger size.
C12_HybridCubeMeshSelection ==
    (/\ selResult # "pending"
     /\ selInput.dtype = "BFloat16"
     /\ selInput.topology = "HYBRID_CUBE_MESH")
    => selResult =
         IF selInput.worldSize # 8 THEN "TORCH_CHECK"
         ELSE IF WideLeq(ExactAlignedBytes(selInput.numel, 1), Wide(kSmallBufferBytes))
           THEN "HCM"
         ELSE "NONE"

\* C12 away from 2^32
C12_HoldsBelowWrap ==
    (/\ selResult # "pending"
     /\ selInput.dtype = "BFloat16"
     /\ selInput.topology = "HYBRID_CUBE_MESH"
     /\ selInput.numel[1] < Limb - 1)
    => selResult =
         IF selInput.worldSize # 8 THEN "TORCH_CHECK"
         ELSE IF WideLeq(ExactAlignedBytes(selInput.numel, 1), Wide(kSmallBufferBytes))
           THEN "HCM"
         ELSE "NONE"

\* C13: for every element count N and every factor f in 1..8, the padded
\* length alignUp(N, 256 * f) returns, computed on 32-bit unsigned operands
\* with a sum that wraps modulo 2^32, is the smallest multiple of 256 * f
\* that is >= N.
C13_AlignUpSmallestMultiple ==
    fnResult # <<>> =>
        fnResult = ExactAlignUp(fnArgs.a, kNumelPerWarp * fnArgs.factor)

\* C13 for the element counts N with N + 256 * f - 1 < 2^32
C13_HoldsBelowWrap ==
    (/\ fnResult # <<>>
     /\ fnArgs.a[1] + (fnArgs.a[2] + kNumelPerWarp * fnArgs.factor - 1) \div Limb < Limb)
    => fnResult = ExactAlignUp(fnArgs.a, kNumelPerWarp * fnArgs.factor)

\* C14: for an unaligned element count and each of the three algorithms, no
\* element of the caller's tensor at an index >= numel is ever written: the
\* padding lanes up to the aligned length are computed and dropped (masked
\* stores in one-shot and hybrid cube mesh, a padded temporary copied back
\* for numel elements only in two-shot).
C14_NoWritePastNumel ==
    probe >= numel => \A r \in Ranks : tensor[r] = NoElement

\* an unaligned two-shot call has completed on every rank, copy back done,
\* and the element followed is a padding lane that a block's loop reached
C14_Witness ==
    /\ algo = "TWO_SHOT" /\ ~kAligned
    /\ probe >= numel /\ probe < N_aligned
    /\ \E b \in Blocks : Visits(b, probe - (probe \div N_per_rank) * N_per_rank, LaunchN)
    /\ AllCompleted(1)
    /\ \A r \in Ranks : scratchOut[r] # NoElement

\* the same for the masked stores: an unaligned one-shot call, and an
\* unaligned hybrid cube mesh call, completed with a padding lane followed
C14_WitnessOneShot ==
    /\ algo = "ONE_SHOT" /\ ~kAligned
    /\ probe >= numel /\ probe < N_aligned
    /\ \E b \in Blocks : Visits(b, probe, LaunchN)
    /\ AllCompleted(1)

C14_WitnessHcm ==
    /\ algo = "HCM" /\ ~kAligned
    /\ probe >= numel /\ probe < N_aligned
    /\ \E b \in Blocks : Visits(b, probe, LaunchN)
    /\ AllCompleted(1)

\* C15: whenever a call passes its capacity check (aligned length at most
\* kMaxIntraNodeSize / 2 elements), the staging copy of numel elements into
\* buffers[rank] stays within that capacity of kMaxIntraNodeSize bytes, also
\* for numel at or above 2^32 - 255.
C15_StagingWithinCapacity ==
    staged # <<>> => WideLeq(staged, Wide(kMaxIntraNodeSize))

\* C15 for the element counts whose alignment does not wrap
C15_HoldsBelowWrap ==
    (staged # <<>> /\ callArgs.numel[1] < Limb - 1)
    => WideLeq(staged, Wide(kMaxIntraNodeSize))

\* the aligned length of the call, over the naturals
ExactAligned(in) == ExactAlignUp(in.numel, kNumelPerWarp * AlignFactor(in))

\* the call breaks one of the preconditions of allReduce: an algorithm that
\* is not one of the three, a dtype other than bf16, a tensor that is not
\* dense, a tensor not on the device of rank, an aligned length over capacity
ViolatesPrecondition(in) ==
    \/ in.algo \notin {"ONE_SHOT", "TWO_SHOT", "HCM"}
    \/ in.dtype # "BFloat16"
    \/ ~in.dense
    \/ in.device # "rank"
    \/ ~WideLeq(ExactAligned(in), Wide(kMaxIntraNodeSize \div kSizeofBFloat16))

\* C16: a call of allReduce that violates an argument or precondition check
\* fails before any staging copy into buffers[rank] and before any kernel
\* launch: nothing is staged, no kernel is put on the stream (so no counter,
\* buffer or tensor element changes) and the call does not return normally.
C16_FailFast ==
    ViolatesPrecondition(callArgs) =>
        /\ staged = <<>>
        /\ kernel = "none"
        /\ callPc # "returned"

\* C16 for the element counts whose alignment does not wrap
C16_HoldsBelowWrap ==
    (ViolatesPrecondition(callArgs) /\ callArgs.numel[1] < Limb - 1) =>
        /\ staged = <<>>
        /\ kernel = "none"
        /\ callPc # "returned"

\* ... and each such call has failed once it can take no further step
C16_RejectedBelowWrap ==
    (/\ ViolatesPrecondition(callArgs)
     /\ callArgs.numel[1] < Limb - 1
     /\ ~ENABLED CallNext)
    => callPc = "failed"

\* C17: every call of allReduce with the HCM algorithm and a world size other
\* than 8 is rejected before the kernel launch; hybridCubeMeshAllReduceKernel
\* is never launched in a group whose world size is not 8.
C17_HcmRequiresWorldSize8 ==
    /\ kernel = "hybridCubeMeshAllReduceKernel" => callArgs.worldSize = 8
    /\ (callArgs.algo = "HCM" /\ callArgs.worldSize # 8) => callPc # "returned"

\* C18: for every aligned length N >= 256 (a multiple of 256) passed to
\* getLaunchConfig, blocks.x is in 1..24 and threads.x is a multiple of 32 in
\* 32..1024; so every index signals[block][peer] a kernel uses is inside the
\* [kMaxAllReduceBlocks][kMaxDevices] array and every block has at least
\* worldSize (at most kMaxDevices) threads for the per-peer release/acquire.
C18_LaunchGeometry ==
    (fnResult # <<>> /\ "N" \in DOMAIN fnArgs) =>
        /\ fnResult.blocks \in 1..kMaxAllReduceBlocks
        /\ fnResult.threads \in kWarpSize..kThreadsPerBlock
        /\ fnResult.threads % kWarpSize = 0
        /\ fnResult.threads >= kMaxDevices

\* the longest length that passes the capacity check has been given its
\* geometry, the block count capped at kMaxAllReduceBlocks
C18_Witness ==
    /\ "N" \in DOMAIN fnArgs
    /\ fnArgs.N = Wide(kMaxIntraNodeSize \div kSizeofBFloat16)
    /\ fnResult # <<>>
    /\ fnResult.blocks = kMaxAllReduceBlocks
    /\ fnResult.threads = kThreadsPerBlock

\* a length that takes one block of fewer than kThreadsPerBlock threads
C18_WitnessOneBlock ==
    /\ "N" \in DOMAIN fnArgs
    /\ fnArgs.N = Wide(kNumelPerWarp)
    /\ fnResult # <<>>
    /\ fnResult.blocks = 1
    /\ fnResult.threads = kWarpSize

\* the releases block b of rank q has made at the entry of its kernels so
\* far: one per call issued, less the one of a kernel still at its entry
EntryReleases(q, b) ==
    IF calls[q] = 0 THEN 0
    ELSE calls[q] - (IF blockPc[q][b] = "enter" THEN 1 ELSE 0)

\* block b of rank r is past the entry barrier of the call r has issued last
PastEntryBarrier(r, b) ==
    calls[r] >= 1 /\ blockPc[r][b] \in {"barrier1", "done"}

\* C19: in any sequence of calls of a fully connected algorithm, a block of
\* rank r is past the entry barrier of its k-th call only if the same block
\* of every peer has made its k-th release to r, hence only if every peer
\* has staged its k-th input; a release left over from an earlier call never
\* opens the barrier of a later call early.
C19_EntryBarrierOrdering ==
    algo \in {"ONE_SHOT", "TWO_SHOT"} =>
        \A r \in Ranks : \A b \in Blocks :
            PastEntryBarrier(r, b) =>
                \A q \in Ranks :
                    /\ EntryReleases(q, b) >= calls[r]
                    /\ calls[q] >= calls[r]

\* a rank is past the entry barrier of its second call while a peer, having
\* released, still waits at that barrier
C19_Witness ==
    /\ algo \in {"ONE_SHOT", "TWO_SHOT"}
    /\ \E r \in Ranks : \E q \in Ranks \ {r} : \E b \in Blocks :
          /\ calls[r] = 2 /\ calls[q] = 2
          /\ PastEntryBarrier(r, b)
          /\ blockPc[q][b] = "barrier"

\* the rank whose shard holds the element followed
ShardOwner == probe \div N_per_rank

\* block b's loop reaches the element followed inside its shard: in phase 1
\* on the owner (the write), in phase 2 on every other rank (the read)
BlockHandlesProbe(b) == Visits(b, probe - ShardOwner * N_per_rank, N_per_rank)

\* C20: two-shot, all ranks with the same grid: every phase-2 read by rank r
\* of an element of another rank's shard from that rank's buffer comes after
\* the owner wrote the fully reduced value of the element in phase 1 of the
\* same call; the same block writes and reads it, and the second barrier of
\* that block is between the two.  Within one call the value read is the sum
\* of all ranks' inputs.
C20_Phase2ReadsAfterPhase1Write ==
    algo = "TWO_SHOT" =>
        \A r \in Ranks \ {ShardOwner} : \A b \in Blocks :
            (calls[r] >= 1 /\ blockPc[r][b] = "done" /\ BlockHandlesProbe(b)) =>
                /\ \/ calls[ShardOwner] > calls[r]
                   \/ /\ calls[ShardOwner] = calls[r]
                      /\ blockPc[ShardOwner][b] \in {"barrier1", "done"}
                /\ (probe < numel /\ \A q \in Ranks : calls[q] = 1) =>
                      /\ buffers[ShardOwner][probe] = SumInputs(worldSize, 1)
                      /\ (IF kAligned THEN tensor[r] ELSE scratchOut[r])
                           = SumInputs(worldSize, 1)

\* on two blocks, a rank has read an element of another rank's shard while
\* the owner's kernel of the same call is still running
C20_Witness ==
    /\ algo = "TWO_SHOT" /\ gridDim = 2 /\ probe < numel
    /\ \A q \in Ranks : calls[q] = 1
    /\ hostPc[ShardOwner] = "kernel"
    /\ \E r \in Ranks \ {ShardOwner} : \E b \in Blocks :
          /\ blockPc[r][b] = "done"
          /\ BlockHandlesProbe(b)

\* C27: for every adjacency and every iteration order of the neighbour sets,
\* a mapping getHybridCubeMesh returns is symmetric in its 3 mesh slots
\* (hcm[X][k] = Y implies hcm[Y][k] = X), and a mesh slot that has been
\* filled is never given a different rank afterwards.
C27_ReturnedSlotsSymmetric ==
    topo.pc = "done" =>
        \A i \in Devices : \A k \in 0..2 :
            topo.hcm[i][k] \in Devices => topo.hcm[topo.hcm[i][k]][k] = i

\* the second half of C27 on its own: a filled mesh slot keeps its rank
C27_FilledSlotKept ==
    [][\A i \in Devices : \A k \in 0..2 :
          (topo # <<>> /\ topo.hcm[i][k] # Unfilled) => topo'.hcm[i][k] = topo.hcm[i][k]]_vars

\* C28: on every adjacency on which getHybridCubeMesh returns, the relay
\* recorded for each rank X is a direct neighbour of X whose neighbour set is
\* disjoint from X's, and the relay of the relay of X is X.
C28_RelayMutualNeighbour ==
    topo.pc = "done" =>
        \A i \in Devices :
            /\ topo.hcm[i][3] \in nvlMesh[i]
            /\ nvlMesh[topo.hcm[i][3]] \cap nvlMesh[i] = {}
            /\ topo.hcm[topo.hcm[i][3]][3] = i

\* C28 on the adjacencies of NOTE [hybrid cube mesh]
C28_HoldsOnValidMeshes ==
    (topo.pc = "done" /\ ValidMesh(nvlMesh)) =>
        \A i \in Devices :
            /\ topo.hcm[i][3] \in nvlMesh[i]
            /\ nvlMesh[topo.hcm[i][3]] \cap nvlMesh[i] = {}
            /\ topo.hcm[topo.hcm[i][3]][3] = i

\* C28 for the returned mappings in which every rank has been given a relay
C28_HoldsWhereRelaysAssigned ==
    (topo.pc = "done" /\ \A i \in Devices : topo.hcm[i][3] \in Devices) =>
        \A i \in Devices :
            /\ topo.hcm[i][3] \in nvlMesh[i]
            /\ nvlMesh[topo.hcm[i][3]] \cap nvlMesh[i] = {}
            /\ topo.hcm[topo.hcm[i][3]][3] = i

\* the other iteration order than the one of this run
OtherOrder == IF iterOrder = "ascending" THEN "descending" ELSE "ascending"

\* what a caller of getHybridCubeMesh sees: a failure, or the mapping
Outcome(t) ==
    [returned |-> t.pc = "done",
     hcm      |-> IF t.pc = "done" THEN t.hcm
                  ELSE [i \in Devices |-> [k \in 0..3 |-> Unfilled]]]

\* C29: for a given adjacency the outcome of getHybridCubeMesh (failure, or
\* the exact mapping returned) does not depend on the order in which the
\* neighbour sets are iterated: the run under the other order ends the same.
C29_OrderIndependent ==
    TopoEnded => Outcome(topo) = Outcome(getHybridCubeMesh(nvlMesh, OtherOrder))

\* C24: for every aligned length N that passes the capacity check of
\* hybridCubeMeshAllReduce, the scratch region of a rank's buffer, elements
\* [kMaxIntraNodeSize / 2, kMaxIntraNodeSize / 2 + N), does not overlap the
\* staged-input region, elements [0, N), of the same buffer: the last input
\* element a neighbour reads lies below the first scratch element written.
C24_ScratchDisjointFromInput ==
    (/\ callArgs # <<>>
     /\ callArgs.algo = "HCM"
     /\ callPc \in {"memcpy", "launch", "returned"})
    => WideLeq(aligned, Wide(RelayBase))

\* a mesh-relay call whose aligned length is exactly the capacity has passed
\* the check and launched its kernel
C24_Witness ==
    /\ callArgs # <<>>
    /\ callArgs.algo = "HCM"
    /\ aligned = Wide(kMaxIntraNodeSize \div kSizeofBFloat16)
    /\ kernel = "hybridCubeMeshAllReduceKernel"

\* the threads (block, thread) of the grid getLaunchConfig gives for a shard
\* of nPerRank elements whose loop takes the value i
ThreadsTaking(nPerRank, i) ==
    LET cfg    == getLaunchConfig(Wide(nPerRank))
        T      == cfg.threads
        stride == T * cfg.blocks * kNumelPerThread
    IN  {bt \in (0..(cfg.blocks - 1)) \X (0..(T - 1)) :
            LET offset == (T * bt[1] + bt[2]) * kNumelPerThread
            IN  offset <= i /\ (i - offset) % stride = 0}

\* C21: for every world size W in 2..8, every rank and every offset i in a
\* shard, the phase-2 index k = N_start + i + (srcRank - rank) * N_per_rank,
\* computed modulo 2^64 (the difference wraps when srcRank < rank), equals
\* srcRank * N_per_rank + i; so the vectors written by one rank in one call
\* (own shard in phase 1, every other shard in phase 2) are pairwise distinct,
\* lie inside [0, N_aligned), cover it, and each is written by one thread.
C21_TwoShotIndexing ==
    ("N_per_rank" \in DOMAIN fnArgs /\ fnResult # <<>>) =>
        LET W       == fnArgs.W
            n       == fnArgs.N_per_rank
            offs    == ShardOffsets(n)
            written == {fnResult[ii][i] : ii \in 0..(W - 1), i \in offs}
        IN  /\ \A ii \in 0..(W - 1) : \A i \in offs :
                  /\ fnResult[ii][i] = U64(((fnArgs.rank + ii) % W) * n + i)
                  /\ U64Small(fnResult[ii][i]) \in 0..(n * W - kNumelPerThread)
                  /\ Cardinality(ThreadsTaking(n, i)) = 1
            /\ Cardinality(written) = W * Cardinality(offs)
            /\ n <= 2 * kNumelPerWarp =>
                  {U64Small(k) : k \in written}
                      = {kNumelPerThread * v : v \in 0..((n * W) \div kNumelPerThread - 1)}

\* the last of 8 ranks, on the longest shard: its first phase-2 source is
\* rank 0, the difference of the ranks has wrapped and the index is 0
C21_Witness ==
    /\ "N_per_rank" \in DOMAIN fnArgs
    /\ fnArgs.W = kMaxDevices /\ fnArgs.rank = kMaxDevices - 1
    /\ fnArgs.N_per_rank = (kMaxIntraNodeSize \div kSizeofBFloat16) \div kMaxDevices
    /\ fnResult # <<>>
    /\ fnResult[1][0] = U64(0)
    /\ U64Sub(U64(0), U64(fnArgs.rank))[8] = Byte - 1

\* C22: across back-to-back two-shot calls on the same buffers, no rank
\* overwrites its buffer (staging call k+1 or storing phase-1 sums of call
\* k+1) while a peer still reads its reduced shard in phase 2 of call k:
\* every phase-2 read of call k returns the value reduced in call k.
C22_Phase2ReadsOwnCall ==
    (algo = "TWO_SHOT" /\ probe < numel) =>
        \A r \in Ranks \ {ShardOwner} : \A b \in Blocks :
            (calls[r] >= 1 /\ blockPc[r][b] = "done" /\ BlockHandlesProbe(b)) =>
                (IF kAligned THEN tensor[r] ELSE scratchOut[r])
                    = SumInputs(worldSize, calls[r])

\* the call in which rank p wrote the partial sum v to its scratch region:
\* p's own term of the sum is Input(p, k) = k * 10^p, read from p's own
\* buffer, which holds the input of p's k-th call for as long as that call's
\* kernel runs; the terms of the other three ranks are multiples of other
\* powers of ten
CallOfPartial(v, p) == (v \div 10^p) % 10

\* C23: in any sequence of mesh-relay calls with a valid mapping, every
\* phase-2 read by rank X of its relay partner's scratch region returns the
\* 4-way partial sum the partner wrote for the same call: written before the
\* read, and not yet overwritten by phase 1 of the partner's next call.
C23_RelayReadsOwnCall ==
    algo = "HCM" =>
        \A r \in Ranks : \A b \in Blocks :
            (/\ calls[r] >= 1 /\ blockPc[r][b] = "done"
             /\ probe < numel /\ Visits(b, probe, N_aligned))
            => CallOfPartial(tensor[r] - buffers[r][RelayBase + probe], RelayRank(r))
                   = calls[r]


\* every counter of both counter sets of every rank's sync state, as the set
\* of values they hold
CounterValues ==
    {signals[q][b][r] : q \in Ranks, b \in Blocks, r \in Ranks}
        \cup {signals1[q][b][r] : q \in Ranks, b \in Blocks, r \in Ranks}

\* C25: from zero-initialized sync state, whenever every rank has completed
\* the same number of calls of one algorithm with the same block count, every
\* counter of every rank's sync state (signals and signals1) is 0 again.
C25_CountersReturnToZero ==
    \A k \in 0..MaxCalls : AllCompleted(k) => CounterValues = {0}

\* two back-to-back two-shot calls have completed on every rank of the
\* largest world, on two blocks per kernel, and both counter sets are zero
C25_Witness ==
    /\ algo = "TWO_SHOT" /\ AllCompleted(MaxCalls)
    /\ worldSize = MaxWorld /\ gridDim = 2
    /\ CounterValues = {0}

\* one call of the hybrid cube mesh kernel has completed on all eight ranks
C25_WitnessHcm ==
    /\ algo = "HCM" /\ AllCompleted(1) /\ CounterValues = {0}

HcmKernelRunning(r) ==
    /\ algo = "HCM" /\ launched = Ranks
    /\ r \in Ranks /\ hostPc[r] = "kernel"

\* C30: hybrid cube mesh, 8 ranks with a mutual neighbour and relay mapping,
\* the same block count, zeroed counters, fair scheduling: every kernel of
\* every call of the sequence passes the 3-neighbour entry barrier and the
\* pairwise relay barrier and terminates.
C30_HcmKernelsTerminate ==
    []<>(\A r \in 0..(kMaxDevices - 1) : ~HcmKernelRunning(r))

\* the last call of the sequence has completed on all eight ranks
C30_Witness ==
    /\ algo = "HCM" /\ AllCompleted(MaxCalls)
    /\ \A r \in Ranks : blockPc[r][0] = "done"

=============================================================================
